---------------------------- MODULE Spec2Model ----------------------------
(***************************************************************************)
(* A model of hydroeval.evaluator (src/hydroeval/hydroeval.py): the        *)
(* routine that normalises the shapes of a simulation array and an         *)
(* evaluation array, deletes the time steps whose evaluation value is      *)
(* missing, applies an optional transform and hands both matrices to an    *)
(* objective function, re-orienting the result along the caller's axis.    *)
(*                                                                         *)
(* Floating-point values are modelled exactly: a number is a reduced       *)
(* fraction, NaN and the infinities are values of their own, and the       *)
(* logarithm and the square root of a number that has no rational result   *)
(* are kept as symbolic terms.                                             *)
(***************************************************************************)
EXTENDS Integers, Sequences, FiniteSets

\* Largest size of one dimension of an input array.
MaxDim == 2

\* Number of sub-component rows a KGE-like objective function returns.
KgeComponents == 4

-----------------------------------------------------------------------------
(* Values *)

Abs(i) == IF i < 0 THEN -i ELSE i

RECURSIVE GCD(_, _)
GCD(a, b) == IF b = 0 THEN a ELSE GCD(b, a % b)

\* The fraction n/d (d # 0), reduced, with a positive denominator.
Num(n, d) ==
    LET s == IF d < 0 THEN -1 ELSE 1
        g == GCD(Abs(n), Abs(d))
    IN  [k |-> "num", n |-> (s * n) \div g, d |-> (s * d) \div g]

NaN    == [k |-> "nan", n |-> 0, d |-> 1]
PosInf == [k |-> "inf", n |-> 1, d |-> 1]
NegInf == [k |-> "inf", n |-> -1, d |-> 1]
None   == [k |-> "none", n |-> 0, d |-> 1]

\* numpy.isnan on one element
IsNaN(v) == v.k = "nan"

\* x + y on floats (the operands here are numbers or NaN)
Add(x, y) ==
    IF x.k = "num" /\ y.k = "num"
    THEN Num(x.n * y.d + y.n * x.d, x.d * y.d)
    ELSE NaN

\* x * y on floats (the operands here are numbers or NaN)
Mul(x, y) ==
    IF x.k = "num" /\ y.k = "num" THEN Num(x.n * y.n, x.d * y.d) ELSE NaN

IsSquare(n) == \E r \in 0..n : r * r = n
Root(n) == CHOOSE r \in 0..n : r * r = n

\* numpy.log on one element
Log(v) ==
    IF v.k # "num" THEN NaN
    ELSE IF v.n < 0 THEN NaN
    ELSE IF v.n = 0 THEN NegInf
    ELSE IF v.n = v.d THEN Num(0, 1)
    ELSE [k |-> "log", n |-> v.n, d |-> v.d]

\* 1.0 / x on one element of an array (a zero divisor gives inf, not an error)
Inv(v) ==
    IF v.k # "num" THEN NaN
    ELSE IF v.n = 0 THEN PosInf
    ELSE Num(v.d, v.n)

\* numpy.sqrt on one element
Sqrt(v) ==
    IF v.k # "num" THEN NaN
    ELSE IF v.n < 0 THEN NaN
    ELSE IF IsSquare(v.n) /\ IsSquare(v.d) THEN Num(Root(v.n), Root(v.d))
    ELSE [k |-> "sqrt", n |-> v.n, d |-> v.d]

\* Python truthiness of the epsilon argument: None and zero are falsy
Truthy(e) == ~(e.k = "none" \/ (e.k = "num" /\ e.n = 0))

-----------------------------------------------------------------------------
(* Arrays: numpy.ndarray as ndim, shape, nested data and the buffer whose  *)
(* memory the array shares ("base").                                       *)

Arr1(xs, b) == [ndim |-> 1, shape |-> <<Len(xs)>>, data |-> xs, base |-> b]
Arr2(r, c, rows, b) == [ndim |-> 2, shape |-> <<r, c>>, data |-> rows, base |-> b]
Arr3(v, b) == [ndim |-> 3, shape |-> <<1, 1, 1>>, data |-> << << <<v>> >> >>, base |-> b]

\* ndarray.T: a view with the axes reversed (a 1D array is returned as it is)
Transpose(a) ==
    IF a.ndim = 2
    THEN Arr2(a.shape[2], a.shape[1],
              [j \in 1..a.shape[2] |-> [i \in 1..a.shape[1] |-> a.data[i][j]]],
              a.base)
    ELSE a

\* numpy.reshape(a, (a.size, 1)) of a 1D array: a column, a view of a
ReshapeColumn(a) ==
    Arr2(a.shape[1], 1, [i \in 1..a.shape[1] |-> <<a.data[i]>>], a.base)

\* m[:, j] as a sequence
Column(m, j) == [i \in 1..m.shape[1] |-> m.data[i][j]]

RECURSIVE SelectSeq2(_, _, _)
\* the rows of `rows` from index i on whose mask entry is TRUE, in order
SelectSeq2(rows, mask, i) ==
    IF i > Len(rows) THEN <<>>
    ELSE IF i \in DOMAIN mask /\ mask[i]
         THEN <<rows[i]>> \o SelectSeq2(rows, mask, i + 1)
         ELSE SelectSeq2(rows, mask, i + 1)

\* MaskRows with basic slicing when no row is masked out: a view of m
MaskRowsView(m, mask) ==
    LET kept == SelectSeq2(m.data, mask, 1)
    IN  Arr2(Len(kept), m.shape[2], kept,
             IF \A i \in DOMAIN mask : mask[i] THEN m.base ELSE "fresh")

\* m[mask, :] boolean-mask indexing: always a copy
MaskRows(m, mask) ==
    LET kept == SelectSeq2(m.data, mask, 1)
    IN  Arr2(Len(kept), m.shape[2], kept, "fresh")

\* ~numpy.isnan(m[:, 0])
NotNaNMask(m) == [i \in 1..m.shape[1] |-> ~IsNaN(m.data[i][1])]

RECURSIVE SumSeq(_, _)
SumSeq(xs, i) == IF i > Len(xs) THEN Num(0, 1) ELSE Add(xs[i], SumSeq(xs, i + 1))

RECURSIVE Flatten(_, _)
Flatten(rows, i) == IF i > Len(rows) THEN <<>> ELSE rows[i] \o Flatten(rows, i + 1)

\* numpy.mean over all elements (NaN for an empty array)
Mean(m) ==
    LET xs == Flatten(m.data, 1)
    IN  IF Len(xs) = 0 THEN NaN ELSE Mul(SumSeq(xs, 1), Num(1, Len(xs)))

-----------------------------------------------------------------------------
(* The steps of evaluator, as functions of the values they read *)

ErrAssert == "AssertionError"
ErrEvalDims == "evaluation array contains more than 2 dimensions"
ErrNotFlat == "evaluation array is not flat"
ErrSimuDims == "simulation array contains more than 2 dimensions"
ErrIncompatible == "simulation and evaluation arrays feature incompatible dimensions"
NoError == "none"

\* a local name that is not bound yet
Unbound == [ndim |-> 0, shape |-> <<>>, data |-> <<>>, base |-> "none"]

\* assert (axis == 0) or (axis == 1); the inputs of the model are all ndarrays
AssertsHold(axis) == (axis = 0) \/ (axis = 1)

\* Orient with the sense of axis swapped: a 2D array transposed for axis=0
OrientSwapped(a, axis) ==
    IF a.ndim = 1 THEN ReshapeColumn(a)
    ELSE IF a.ndim = 2 THEN (IF axis = 0 THEN Transpose(a) ELSE a)
    ELSE Unbound

\* the 1D/2D/else branches that bind my_eval and my_simu
Orient(a, axis) ==
    IF a.ndim = 1 THEN ReshapeColumn(a)
    ELSE IF a.ndim = 2 THEN (IF axis = 0 THEN a ELSE Transpose(a))
    ELSE Unbound

\* IsFlat that accepts a single row as well as a single column
IsFlatAnyAxis(ev) == ev.shape[1] = 1 \/ ev.shape[2] = 1

\* not my_eval.shape[1] == 1 raises 'not flat'
IsFlat(ev) == ev.shape[2] = 1

\* LengthsCompatible that lets a longer simulation through
LengthsCompatibleTruncating(simu, ev) == simu.shape[1] >= ev.shape[1]

\* not my_simu.shape[0] == my_eval.shape[0] raises 'incompatible dimensions'
LengthsCompatible(simu, ev) == simu.shape[1] = ev.shape[1]

\* DeleteSimu by the simulation's own missing values
DeleteSimuOwnMask(simu, ev) == MaskRows(simu, NotNaNMask(simu))

\* my_simu[~np.isnan(my_eval[:, 0]), :]
DeleteSimu(simu, ev) == MaskRows(simu, NotNaNMask(ev))

\* my_eval[~np.isnan(my_eval[:, 0]), :]
DeleteEval(ev) == MaskRows(ev, NotNaNMask(ev))

\* TransformBranch whose last branch is an else
TransformBranchFallsThrough(transform) ==
    IF transform = "log" THEN "log"
    ELSE IF transform = "inv" THEN "inv"
    ELSE IF transform = "none" THEN "none"
    ELSE "sqrt"

\* the branch of the if/elif chain on transform that runs ("none": no branch)
TransformBranch(transform) ==
    IF transform = "log" THEN "log"
    ELSE IF transform = "inv" THEN "inv"
    ELSE IF transform = "sqrt" THEN "sqrt"
    ELSE "none"

\* epsilon = 0.01 * np.mean(my_eval)
DefaultEpsilon(ev) == Mul(Num(1, 100), Mean(ev))

\* the value of the local epsilon after the transform branches
TransformEpsilon(transform, eps, ev) ==
    IF TransformBranch(transform) \in {"log", "inv"} /\ ~Truthy(eps)
    THEN DefaultEpsilon(ev)
    ELSE eps

\* np.log(m + eps)
LogShift(m, eps) ==
    Arr2(m.shape[1], m.shape[2],
         [i \in 1..m.shape[1] |->
             [j \in 1..m.shape[2] |-> Log(Add(m.data[i][j], eps))]],
         "fresh")

\* 1.0 / (m + eps)
InvShift(m, eps) ==
    Arr2(m.shape[1], m.shape[2],
         [i \in 1..m.shape[1] |->
             [j \in 1..m.shape[2] |-> Inv(Add(m.data[i][j], eps))]],
         "fresh")

\* np.sqrt(m)
SqrtAll(m) ==
    Arr2(m.shape[1], m.shape[2],
         [i \in 1..m.shape[1] |-> [j \in 1..m.shape[2] |-> Sqrt(m.data[i][j])]],
         "fresh")

\* the array bound to my_eval (or my_simu) after the transform branches;
\* eps is the local epsilon as TransformEpsilon leaves it
TransformArray(transform, eps, m) ==
    LET branch == TransformBranch(transform)
    IN  IF branch = "log" THEN LogShift(m, eps)
        ELSE IF branch = "inv" THEN InvShift(m, eps)
        ELSE IF branch = "sqrt" THEN SqrtAll(m)
        ELSE m

\* One score of objective function fn: an uninterpreted term over the
\* simulated column and the observed column it is computed from.
Score(fn, part, simu, ev, j) ==
    [k |-> "score", fn |-> fn, part |-> part,
     sim |-> Column(simu, j), obs |-> Column(ev, 1)]

\* obj_fn(my_simu, my_eval): "nse" returns one score per simulated column
\* (a 1D array), "kge" a row of scores per sub-component (a 2D array).
ObjFn(fn, simu, ev) ==
    IF fn = "nse"
    THEN Arr1([j \in 1..simu.shape[2] |-> Score(fn, 1, simu, ev, j)], "fresh")
    ELSE Arr2(KgeComponents, simu.shape[2],
              [p \in 1..KgeComponents |->
                  [j \in 1..simu.shape[2] |-> Score(fn, p, simu, ev, j)]],
              "fresh")

\* Reorient that returns the result as computed whatever the axis
ReorientNever(res, axis) == res

\* return obj_fn(...) if axis == 0, else obj_fn(...).T
Reorient(res, axis) == IF axis = 0 THEN res ELSE Transpose(res)

\* Successor with the length check after the pairwise deletion
SuccessorLateCheck(stage) ==
    CASE stage = "asserts"   -> "norm_eval"
      [] stage = "norm_eval" -> "norm_simu"
      [] stage = "norm_simu" -> "deletion"
      [] stage = "deletion"  -> "lengths"
      [] stage = "lengths"   -> "transform"
      [] stage = "transform" -> "dispatch"
      [] stage = "dispatch"  -> "returned"

\* The order of the statements of evaluator.
Successor(stage) ==
    CASE stage = "asserts"   -> "norm_eval"
      [] stage = "norm_eval" -> "norm_simu"
      [] stage = "norm_simu" -> "lengths"
      [] stage = "lengths"   -> "deletion"
      [] stage = "deletion"  -> "transform"
      [] stage = "transform" -> "dispatch"
      [] stage = "dispatch"  -> "returned"

\* DispatchArgs with the two arguments swapped
DispatchArgsSwapped(simu, ev) == <<ev, simu>>

\* obj_fn(my_simu, my_eval): the first and the second argument of the call
DispatchArgs(simu, ev) == <<simu, ev>>

Raised(e) == [status |-> "raised", error |-> e, result |-> Unbound]
Returned(r) == [status |-> "returned", error |-> NoError, result |-> r]

\* evaluator as one function of its arguments: what the call raises or returns
evaluator(obj_fn, sims, evaln, axis, transform, eps) ==
    IF ~AssertsHold(axis) THEN Raised(ErrAssert)
    ELSE IF evaln.ndim \notin {1, 2} THEN Raised(ErrEvalDims)
    ELSE IF ~IsFlat(Orient(evaln, axis)) THEN Raised(ErrNotFlat)
    ELSE IF sims.ndim \notin {1, 2} THEN Raised(ErrSimuDims)
    ELSE IF ~LengthsCompatible(Orient(sims, axis), Orient(evaln, axis))
         THEN Raised(ErrIncompatible)
    ELSE LET ev0 == Orient(evaln, axis)
             simu1 == DeleteSimu(Orient(sims, axis), ev0)
             ev1 == DeleteEval(ev0)
             e == TransformEpsilon(transform, eps, ev1)
             ev2 == TransformArray(transform, e, ev1)
             simu2 == TransformArray(transform, e, simu1)
             a == DispatchArgs(simu2, ev2)
         IN  Returned(Reorient(ObjFn(obj_fn, a[1], a[2]), axis))

-----------------------------------------------------------------------------
(* The inputs of a call *)

SimValue(p) == Num(p, 1)
EvalValue(p) == Num(2 * (p - 1), 1)

\* the element at flat position p of the caller's array b
Elem(b, nans, p) ==
    IF p \in nans THEN NaN
    ELSE IF b = "simulations" THEN SimValue(p) ELSE EvalValue(p)

Input1(n, nans, b) == Arr1([i \in 1..n |-> Elem(b, nans, i)], b)
Input2(r, c, nans, b) ==
    Arr2(r, c, [i \in 1..r |-> [j \in 1..c |-> Elem(b, nans, (i - 1) * c + j)]], b)

Min(a, b) == IF a < b THEN a ELSE b

\* the 1D, 2D and 3D arrays whose dimensions are at most MaxDim, any of
\* their first MaxDim values missing
InputArrays(b) ==
    {Input1(x[1], x[2], b) :
        x \in {y \in (1..MaxDim) \X SUBSET (1..MaxDim) : y[2] \subseteq 1..y[1]}}
    \cup
    {Input2(x[1], x[2], x[3], b) :
        x \in {y \in (1..MaxDim) \X (1..MaxDim) \X SUBSET (1..MaxDim) :
                  y[3] \subseteq 1..Min(y[1] * y[2], MaxDim)}}
    \cup {Arr3(Elem(b, {}, 1), b)}

SimulationInputs == InputArrays("simulations")
EvaluationInputs == InputArrays("evaluation")

AxisInputs == {0, 1, 2}
TransformInputs == {"none", "log", "inv", "sqrt", "box-cox"}
EpsilonInputs == {None, Num(0, 1), Num(1, 2)}
ObjFnInputs == {"nse", "kge"}

-----------------------------------------------------------------------------
(* The state machine: one call of evaluator at a time, statement by        *)
(* statement.                                                              *)

VARIABLES
    pc,           \* "idle", the stage about to run, "returned" or "raised"
    args,         \* the arguments as the caller passed them
    simulations,  \* the caller's simulations array, as it is now
    evaluation,   \* the caller's evaluation array, as it is now
    epsilon,      \* the local name epsilon
    my_simu,      \* the local name my_simu
    my_eval,      \* the local name my_eval
    error,        \* the exception raised, if any
    result,       \* the value returned, if any
    calls,        \* the calls of obj_fn made so far: <<first arg, second arg>>
    done          \* the computation stages the call has run

vars == <<pc, args, simulations, evaluation, epsilon, my_simu, my_eval,
          error, result, calls, done>>

NoArgs == [obj_fn |-> "none", simulations |-> Unbound, evaluation |-> Unbound,
           axis |-> 0, transform |-> "none", epsilon |-> None]

Init ==
    /\ pc = "idle"
    /\ args = NoArgs
    /\ simulations = Unbound
    /\ evaluation = Unbound
    /\ epsilon = None
    /\ my_simu = Unbound
    /\ my_eval = Unbound
    /\ error = NoError
    /\ result = Unbound
    /\ calls = <<>>
    /\ done = {}

\* the caller calls evaluator(obj_fn, simulations, evaluation, axis, transform, epsilon)
Call ==
    /\ pc = "idle"
    /\ \E f \in ObjFnInputs, s \in SimulationInputs, e \in EvaluationInputs,
          a \in AxisInputs, t \in TransformInputs, eps \in EpsilonInputs :
          /\ args' = [obj_fn |-> f, simulations |-> s, evaluation |-> e,
                      axis |-> a, transform |-> t, epsilon |-> eps]
          /\ simulations' = s
          /\ evaluation' = e
          /\ epsilon' = eps
    /\ pc' = "asserts"
    /\ UNCHANGED <<my_simu, my_eval, error, result, calls, done>>

Raise(e) ==
    /\ pc' = "raised"
    /\ error' = e

\* the three assert statements
CheckAsserts ==
    /\ pc = "asserts"
    /\ IF AssertsHold(args.axis)
       THEN pc' = Successor(pc) /\ UNCHANGED error
       ELSE Raise(ErrAssert)
    /\ UNCHANGED <<args, simulations, evaluation, epsilon, my_simu, my_eval,
                   result, calls, done>>

\* "check that the evaluation data provided is a single series of data"
NormaliseEvaluation ==
    /\ pc = "norm_eval"
    /\ IF evaluation.ndim \notin {1, 2}
       THEN Raise(ErrEvalDims) /\ UNCHANGED my_eval
       ELSE /\ my_eval' = Orient(evaluation, args.axis)
            /\ IF IsFlat(my_eval')
               THEN pc' = Successor(pc) /\ UNCHANGED error
               ELSE Raise(ErrNotFlat)
    /\ UNCHANGED <<args, simulations, evaluation, epsilon, my_simu,
                   result, calls, done>>

\* "check the dimensions of the simulation data provided"
NormaliseSimulations ==
    /\ pc = "norm_simu"
    /\ IF simulations.ndim \notin {1, 2}
       THEN Raise(ErrSimuDims) /\ UNCHANGED my_simu
       ELSE /\ my_simu' = Orient(simulations, args.axis)
            /\ pc' = Successor(pc)
            /\ UNCHANGED error
    /\ UNCHANGED <<args, simulations, evaluation, epsilon, my_eval,
                   result, calls, done>>

\* "check that the two arrays have compatible lengths"
CheckLengths ==
    /\ pc = "lengths"
    /\ IF LengthsCompatible(my_simu, my_eval)
       THEN pc' = Successor(pc) /\ UNCHANGED error
       ELSE Raise(ErrIncompatible)
    /\ UNCHANGED <<args, simulations, evaluation, epsilon, my_simu, my_eval,
                   result, calls, done>>

\* "generate a subset of simulation and evaluation series where evaluation
\* data is available"
PairwiseDeletion ==
    /\ pc = "deletion"
    /\ my_simu' = DeleteSimu(my_simu, my_eval)
    /\ my_eval' = DeleteEval(my_eval)
    /\ done' = done \cup {"deletion"}
    /\ pc' = Successor(pc)
    /\ UNCHANGED <<args, simulations, evaluation, epsilon, error, result, calls>>

\* "transform the flow series if required"
TransformSeries ==
    /\ pc = "transform"
    /\ epsilon' = TransformEpsilon(args.transform, epsilon, my_eval)
    /\ my_eval' = TransformArray(args.transform, epsilon', my_eval)
    /\ my_simu' = TransformArray(args.transform, epsilon', my_simu)
    /\ done' = IF TransformBranch(args.transform) # "none"
               THEN done \cup {"transform"} ELSE done
    /\ pc' = Successor(pc)
    /\ UNCHANGED <<args, simulations, evaluation, error, result, calls>>

\* "calculate the requested function and return in the same array orientation"
Dispatch ==
    /\ pc = "dispatch"
    /\ LET a == DispatchArgs(my_simu, my_eval)
       IN  /\ calls' = Append(calls, a)
           /\ result' = Reorient(ObjFn(args.obj_fn, a[1], a[2]), args.axis)
    /\ done' = done \cup {"obj_fn"}
    /\ pc' = Successor(pc)
    /\ UNCHANGED <<args, simulations, evaluation, epsilon, my_simu, my_eval, error>>

\* the call is over: its locals, its result and its exception are dropped
Finish ==
    /\ pc \in {"returned", "raised"}
    /\ pc' = "idle"
    /\ args' = NoArgs
    /\ simulations' = Unbound
    /\ evaluation' = Unbound
    /\ epsilon' = None
    /\ my_simu' = Unbound
    /\ my_eval' = Unbound
    /\ error' = NoError
    /\ result' = Unbound
    /\ calls' = <<>>
    /\ done' = {}

Next ==
    \/ Call
    \/ CheckAsserts
    \/ NormaliseEvaluation
    \/ NormaliseSimulations
    \/ CheckLengths
    \/ PairwiseDeletion
    \/ TransformSeries
    \/ Dispatch
    \/ Finish

Spec == Init /\ [][Next]_vars

-----------------------------------------------------------------------------
(* Properties *)

InCall == pc # "idle"
Ended == pc \in {"returned", "raised"}
Recognised == {"log", "inv", "sqrt"}

\* the matrices the call normalises its two arrays to
NormSimu == Orient(args.simulations, args.axis)
NormEval == Orient(args.evaluation, args.axis)

\* the time steps of a one-column matrix whose value is not missing
NotMissing(ev) == {i \in 1..ev.shape[1] : ev.data[i][1] # NaN}

\* the n-th smallest element of a set of time steps
NthOf(K, n) == CHOOSE i \in K : Cardinality({j \in K : j < i}) = n - 1

\* the matrix of the rows of m at the time steps K, in their order in m
RowsAt(m, K) ==
    Arr2(Cardinality(K), m.shape[2],
         [n \in 1..Cardinality(K) |-> m.data[NthOf(K, n)]], "fresh")

\* C1: after the pairwise deletion, and in the call of the objective
\* function, both matrices hold exactly the rows of the normalised matrices
\* at which the evaluation value is not NaN, in their original order (the
\* transform, if any, applied to them), whatever the simulation values are.
C1_DeletionByEvaluationOnly ==
    LET K == NotMissing(NormEval)
    IN  /\ pc = "transform" =>
              /\ my_simu = RowsAt(NormSimu, K)
              /\ my_eval = RowsAt(NormEval, K)
        /\ calls # <<>> =>
              /\ calls[1][1] = TransformArray(args.transform, epsilon, RowsAt(NormSimu, K))
              /\ calls[1][2] = TransformArray(args.transform, epsilon, RowsAt(NormEval, K))

\* a call reached the objective function after dropping a row whose
\* simulation value is present and keeping a row whose simulation value is NaN
C1_Witness ==
    /\ pc = "returned"
    /\ args.transform = "none"
    /\ \E i, j \in 1..NormEval.shape[1] :
          /\ IsNaN(NormEval.data[i][1]) /\ ~IsNaN(NormSimu.data[i][1])
          /\ ~IsNaN(NormEval.data[j][1]) /\ IsNaN(NormSimu.data[j][1])
          /\ i < j
    /\ calls[1][1].shape[1] = NormSimu.shape[1] - 1

\* C2: for the log and inv transforms the epsilon added to both matrices is
\* the caller's value whenever the caller supplies one, and 0.01 x the mean
\* of the post-deletion evaluation series only when the caller supplies none.
C2_EpsilonIsCallersWhenSupplied ==
    (pc \in {"dispatch", "returned"} /\ args.transform \in {"log", "inv"}) =>
        LET ev1 == DeleteEval(NormEval)
            simu1 == DeleteSimu(NormSimu, NormEval)
            want == IF args.epsilon # None THEN args.epsilon
                    ELSE Mul(Num(1, 100), Mean(ev1))
        IN  /\ epsilon = want
            /\ my_eval = IF args.transform = "log"
                         THEN LogShift(ev1, want) ELSE InvShift(ev1, want)
            /\ my_simu = IF args.transform = "log"
                         THEN LogShift(simu1, want) ELSE InvShift(simu1, want)

\* C3: for 2D inputs and axis=0, the call ends as the call on the transposed
\* inputs with axis=1 ends (both return or both raise), and what it returns
\* is the transpose of what that call returns.
C3_AxisSymmetry ==
    (Ended /\ args.axis = 0 /\ args.simulations.ndim = 2
           /\ args.evaluation.ndim = 2) =>
        LET other == evaluator(args.obj_fn, Transpose(args.simulations),
                               Transpose(args.evaluation), 1,
                               args.transform, args.epsilon)
        IN  /\ other.status = pc
            /\ pc = "returned" => result = Transpose(other.result)

\* a call with axis=0 on a 2x2 simulation matrix returned the 2D result of
\* a function that reports sub-components
C3_Witness ==
    /\ pc = "returned"
    /\ args.axis = 0
    /\ args.obj_fn = "kge"
    /\ args.simulations.ndim = 2 /\ args.simulations.shape = <<2, 2>>
    /\ args.evaluation.ndim = 2
    /\ result.shape = <<KgeComponents, 2>>

\* C4: once the call has bound both normalised matrices and is past its
\* length check, matrices that differ in row count mean that it raised the
\* incompatible-dimensions error, with both matrices as normalised (nothing
\* truncated or padded) and the objective function not called.
C4_LengthMismatchRaises ==
    (/\ pc \in {"deletion", "transform", "dispatch", "returned", "raised"}
     /\ my_simu # Unbound
     /\ NormSimu.shape[1] # NormEval.shape[1]) =>
        /\ pc = "raised"
        /\ error = ErrIncompatible
        /\ my_simu = NormSimu
        /\ my_eval = NormEval
        /\ calls = <<>>
        /\ done = {}
        /\ result = Unbound

\* a call raised the incompatible-dimensions error on a simulation longer
\* than the evaluation
C4_Witness ==
    /\ pc = "raised"
    /\ error = ErrIncompatible
    /\ my_simu.shape[1] > my_eval.shape[1]

\* the number of columns the evaluation array normalises to
EvalColumns ==
    IF args.evaluation.ndim = 1 THEN 1
    ELSE IF args.axis = 0 THEN args.evaluation.shape[2]
    ELSE args.evaluation.shape[1]

PastEvalCheck == pc \in {"norm_simu", "lengths", "deletion", "transform",
                         "dispatch", "returned", "raised"}

InputErrors == {ErrAssert, ErrEvalDims, ErrNotFlat, ErrSimuDims, ErrIncompatible}

\* C7: a call that ends in an error ends in one of the input errors, with
\* no pairwise deletion, no transform and no call of the objective function
\* done, and with no result.
C7_ErrorsBeforeComputation ==
    pc = "raised" =>
        /\ error \in InputErrors
        /\ done = {}
        /\ calls = <<>>
        /\ result = Unbound
        /\ my_simu \in {Unbound, NormSimu}
        /\ my_eval \in {Unbound, NormEval}

\* a call asked for a transform, had a missing evaluation value to delete,
\* and raised the incompatible-dimensions error
C7_Witness ==
    /\ pc = "raised"
    /\ error = ErrIncompatible
    /\ args.transform = "log"
    /\ NotMissing(my_eval) # 1..my_eval.shape[1]

\* C8: with a transform other than 'log', 'inv' and 'sqrt', whatever the
\* epsilon, no transform runs, the objective function receives the
\* post-deletion matrices unchanged, and the call ends as the same call with
\* no transform and no epsilon ends: the same error or the same result.
C8_UnrecognisedTransformIsNone ==
    (Ended /\ args.transform \notin Recognised) =>
        LET plain == evaluator(args.obj_fn, args.simulations, args.evaluation,
                               args.axis, "none", None)
        IN  /\ "transform" \notin done
            /\ epsilon = args.epsilon
            /\ plain.status = pc
            /\ plain.error = error
            /\ plain.result = result
            /\ pc = "returned" =>
                  /\ calls[1][1] = RowsAt(NormSimu, NotMissing(NormEval))
                  /\ calls[1][2] = RowsAt(NormEval, NotMissing(NormEval))

\* a call with an unrecognised transform and an epsilon returned, after
\* deleting a row
C8_Witness ==
    /\ pc = "returned"
    /\ args.transform = "box-cox"
    /\ args.epsilon = Num(1, 2)
    /\ calls[1][2].shape[1] < NormEval.shape[1]
    /\ calls[1][2].shape[1] > 0

\* C9: throughout a call the caller's two arrays hold the values they were
\* passed with, the matrices handed to the objective function share no
\* memory with them, and a call starts with nothing bound by an earlier one.
C9_InputsUntouched ==
    /\ InCall => (simulations = args.simulations /\ evaluation = args.evaluation)
    /\ calls # <<>> => (calls[1][1].base = "fresh" /\ calls[1][2].base = "fresh")
    /\ pc = "asserts" =>
          /\ my_simu = Unbound /\ my_eval = Unbound
          /\ calls = <<>> /\ done = {} /\ result = Unbound /\ error = NoError

\* a call with axis=0 on 2D arrays with no missing evaluation value and no
\* transform returned: nothing forced a copy but the deletion itself
C9_Witness ==
    /\ pc = "returned"
    /\ args.axis = 0
    /\ args.transform = "none"
    /\ args.simulations.ndim = 2 /\ args.evaluation.ndim = 2
    /\ NotMissing(NormEval) = 1..NormEval.shape[1]
    /\ calls[1][1].data = args.simulations.data

\* C10: a call that returns has called the objective function exactly once,
\* with the simulation matrix first and the evaluation matrix second, and
\* returns that call's result as computed when axis=0 and transposed when
\* axis=1, whatever the dimensionality of the inputs.
C10_OneCallThenReorient ==
    pc = "returned" =>
        LET e == TransformEpsilon(args.transform, args.epsilon, DeleteEval(NormEval))
            simu == TransformArray(args.transform, e, DeleteSimu(NormSimu, NormEval))
            ev == TransformArray(args.transform, e, DeleteEval(NormEval))
            computed == ObjFn(args.obj_fn, simu, ev)
        IN  /\ Len(calls) = 1
            /\ calls[1][1] = simu
            /\ calls[1][2] = ev
            /\ args.axis = 0 => result = computed
            /\ args.axis = 1 => result = Transpose(computed)

\* a call with two 1D inputs and axis=1 returned a 2D result, transposed
C10_Witness ==
    /\ pc = "returned"
    /\ args.axis = 1
    /\ args.simulations.ndim = 1 /\ args.evaluation.ndim = 1
    /\ args.obj_fn = "kge"
    /\ result.shape = <<1, KgeComponents>>

=============================================================================
